---- MODULE Spec2Model ----
(***************************************************************************)
(* Model of src/app.py: coordinate validation and cleaning, column         *)
(* harmonization, the three-way reconciliation performed by                *)
(* load_and_process_data, and the page script main() with its session      *)
(* state, automatic load, manual load, statistics and map data.            *)
(*                                                                         *)
(* Representation.                                                         *)
(*  - A coordinate is kept in hundredths of a degree (-6.45 is -645).      *)
(*  - A cell that may be missing (NaN) is a tuple: <<>> is NaN, <<v>> is   *)
(*    the number v.  Coordinates are numbers or NaN; text in a coordinate  *)
(*    column is outside the model.                                         *)
(*  - A DataFrame is [columns |-> set of column names,                     *)
(*                    rows |-> sequence of [idx, cells]],                  *)
(*    idx the pandas index label (the row's position in the file) and      *)
(*    cells a function from the frame's columns to values.                 *)
(*  - A file is [readable |-> BOOLEAN, frame |-> DataFrame].               *)
(***************************************************************************)
EXTENDS Integers, Sequences, FiniteSets, TLC

VARIABLES
    pc,                 \* position inside load_and_process_data
    matched_file,       \* the three arguments of load_and_process_data
    esb_file,
    jakarta_file,
    df_matched,         \* frames read from the files
    df_esb_full,
    df_jakarta_full,
    df_matched_clean,   \* frames after clean_coordinates
    df_esb_clean,
    df_jakarta_clean,
    green_data,         \* the three outputs
    orange_data,
    blue_data,
    errors,             \* the st.error reports made so far
    v_lat,              \* validate_coordinates exercised on its own:
    v_lon,              \*   arguments, configured bounds, position, result
    v_bounds,
    v_pc,
    v_result,
    repository,         \* the default files on disk: exists, contents
    session_state,      \* st.session_state
    data_source,        \* widget values kept by the page between reruns
    show_layers,
    uploads,
    paths,
    rerun,              \* what the last run of main() did and showed
    last_load,          \* outputs of the last load call whose results a run
                        \*   began to store
    reruns              \* runs of main() in the session so far

vars == <<pc, matched_file, esb_file, jakarta_file, df_matched, df_esb_full,
          df_jakarta_full, df_matched_clean, df_esb_clean, df_jakarta_clean,
          green_data, orange_data, blue_data, errors,
          v_lat, v_lon, v_bounds, v_pc, v_result,
          repository, session_state, data_source, show_layers, uploads,
          paths, rerun, last_load, reruns>>

pipeVars == <<pc, matched_file, esb_file, jakarta_file, df_matched, df_esb_full,
              df_jakarta_full, df_matched_clean, df_esb_clean, df_jakarta_clean,
              green_data, orange_data, blue_data, errors>>

valVars == <<v_lat, v_lon, v_bounds, v_pc, v_result>>

pageVars == <<repository, session_state, data_source, show_layers, uploads,
              paths, rerun, last_load, reruns>>

----------------------------------------------------------------------------
(* Missing values *)

NaN == <<>>

Num(v) == <<v>>

isna(x) == x = NaN

----------------------------------------------------------------------------
(* Config *)

JAKARTA_BOUNDS ==
    [min_lat |-> -645, max_lat |-> -608, min_lon |-> 10660, max_lon |-> 10710]

----------------------------------------------------------------------------
(* validate_coordinates, with the bounds it reads from Config as a         *)
(* parameter.                                                              *)

\* the absolute range check left out
validate_with_NoAbsolute(lat, lon, b) ==
    IF isna(lat) \/ isna(lon) THEN FALSE
    ELSE IF ~(b.min_lat <= lat[1] /\ lat[1] <= b.max_lat) THEN FALSE
    ELSE IF ~(b.min_lon <= lon[1] /\ lon[1] <= b.max_lon) THEN FALSE
    ELSE TRUE

validate_with(lat, lon, b) ==
    IF isna(lat) \/ isna(lon) THEN FALSE
    ELSE IF ~(-9000 <= lat[1] /\ lat[1] <= 9000)
            \/ ~(-18000 <= lon[1] /\ lon[1] <= 18000) THEN FALSE
    ELSE IF ~(b.min_lat <= lat[1] /\ lat[1] <= b.max_lat) THEN FALSE
    ELSE IF ~(b.min_lon <= lon[1] /\ lon[1] <= b.max_lon) THEN FALSE
    ELSE TRUE

validate_coordinates(lat, lon) == validate_with(lat, lon, JAKARTA_BOUNDS)

----------------------------------------------------------------------------
(* DataFrame primitives *)

EmptyFrame == [columns |-> {}, rows |-> <<>>]            \* pd.DataFrame()

Empty(df) == df.rows = <<>> \/ df.columns = {}           \* df.empty

HasColumns(df, cols) == cols \subseteq df.columns

\* df[cols].copy(): the listed columns of every row, index kept
SelectColumns(df, cols) ==
    [columns |-> cols,
     rows |-> [i \in 1..Len(df.rows) |->
                 [idx |-> df.rows[i].idx,
                  cells |-> [c \in cols |-> df.rows[i].cells[c]]]]]

\* df.rename(columns=map): names in the map's domain are replaced, names
\* absent from the frame are ignored
NewName(map, c) == IF c \in DOMAIN map THEN map[c] ELSE c

Rename(df, map) ==
    LET newcols == {NewName(map, c) : c \in df.columns}
        old(n) == CHOOSE c \in df.columns : NewName(map, c) = n
    IN [columns |-> newcols,
        rows |-> [i \in 1..Len(df.rows) |->
                    [idx |-> df.rows[i].idx,
                     cells |-> [n \in newcols |-> df.rows[i].cells[old(n)]]]]]

\* df[col] = value, the same value in every row
SetColumn(df, col, value) ==
    [columns |-> df.columns \cup {col},
     rows |-> [i \in 1..Len(df.rows) |->
                 [idx |-> df.rows[i].idx,
                  cells |-> [c \in df.columns \cup {col} |->
                               IF c = col THEN value
                               ELSE df.rows[i].cells[c]]]]]

\* df[col] = other[col], aligned on the index
CopyColumn(df, other, col) ==
    LET from(ix) == CHOOSE j \in 1..Len(other.rows) : other.rows[j].idx = ix
    IN [columns |-> df.columns \cup {col},
        rows |-> [i \in 1..Len(df.rows) |->
                    [idx |-> df.rows[i].idx,
                     cells |-> [c \in df.columns \cup {col} |->
                                  IF c = col
                                  THEN other.rows[from(df.rows[i].idx)].cells[col]
                                  ELSE df.rows[i].cells[c]]]]]

RowSet(df) == {df.rows[i] : i \in 1..Len(df.rows)}

\* df[mask]: the rows the mask selects, order and index kept
FilterRows(df, mask) ==
    [columns |-> df.columns,
     rows |-> SelectSeq(df.rows, LAMBDA r : r \in mask)]

\* set(df[col].unique())
Unique(df, col) == {df.rows[i].cells[col] : i \in 1..Len(df.rows)}

----------------------------------------------------------------------------
(* Exceptions: an operation that raises yields the exception in place of   *)
(* its result.                                                             *)

KeyError == [exception |-> "KeyError"]

IsException(x) == "exception" \in DOMAIN x

----------------------------------------------------------------------------
(* clean_coordinates(df, lat_col, lon_col, dataset_name)                   *)

dropna(df, lat_col, lon_col) ==
    FilterRows(df, {r \in RowSet(df) :
                     ~isna(r.cells[lat_col]) /\ ~isna(r.cells[lon_col])})

\* the validity mask never applied
clean_coordinates_DropnaOnly(df, lat_col, lon_col) ==
    IF Empty(df) THEN df
    ELSE IF ~HasColumns(df, {lat_col, lon_col}) THEN KeyError
    ELSE dropna(df, lat_col, lon_col)

\* the validity mask applied one row off: the first valid row is lost when
\* several are valid
clean_coordinates_MaskShifted(df, lat_col, lon_col) ==
    IF Empty(df) THEN df
    ELSE IF ~HasColumns(df, {lat_col, lon_col}) THEN KeyError
    ELSE LET df_clean == dropna(df, lat_col, lon_col)
             df_valid == FilterRows(df_clean, {r \in RowSet(df_clean) :
                     validate_coordinates(r.cells[lat_col], r.cells[lon_col])})
         IN  [df_valid EXCEPT !.rows =
                 IF Len(df_valid.rows) > 1 THEN Tail(df_valid.rows)
                 ELSE df_valid.rows]

clean_coordinates(df, lat_col, lon_col) ==
    IF Empty(df) THEN df
    ELSE IF ~HasColumns(df, {lat_col, lon_col}) THEN KeyError
    ELSE LET df_clean == dropna(df, lat_col, lon_col)
         IN  IF Empty(df_clean) THEN df_clean
             ELSE FilterRows(df_clean, {r \in RowSet(df_clean) :
                     validate_coordinates(r.cells[lat_col], r.cells[lon_col])})

----------------------------------------------------------------------------
(* load_and_process_data: reading the three files                          *)

\* only the first read guarded
read_ok_MatchedOnly(matched, esb, jakarta) == matched.readable

read_ok(matched, esb, jakarta) ==
    matched.readable /\ esb.readable /\ jakarta.readable

----------------------------------------------------------------------------
(* load_and_process_data: standardizing the column names                   *)

standardize_esb(df) ==
    IF {"longitude", "latitude"} \subseteq df.columns
    THEN Rename(df, [c \in {"longitude", "latitude"} |->
                        IF c = "longitude" THEN "lon" ELSE "lat"])
    ELSE df

JakartaAliases ==
    [c \in {"longitude", "latitude", "Nama Restoran"} |->
        CASE c = "longitude" -> "lon"
          [] c = "latitude" -> "lat"
          [] c = "Nama Restoran" -> "nama_restoran"]

standardize_jakarta(df) ==
    LET rename_dict == [c \in (DOMAIN JakartaAliases) \cap df.columns |->
                           JakartaAliases[c]]
    IN  IF DOMAIN rename_dict # {} THEN Rename(df, rename_dict) ELSE df

----------------------------------------------------------------------------
(* load_and_process_data: the three categorized outputs.  Each block is a  *)
(* try/except: the result is [data, error], data staying pd.DataFrame()    *)
(* when the block raised.                                                  *)

GREEN == <<0, 255, 0, 200>>
ORANGE == <<255, 165, 0, 200>>
BLUE == <<0, 0, 255, 200>>

MatchedColumns ==
    {"brandName_esb", "branchName_esb", "latitude_esb", "longitude_esb"}

MatchedRename ==
    [c \in MatchedColumns |->
        CASE c = "brandName_esb" -> "nama_restoran"
          [] c = "branchName_esb" -> "cabang"
          [] c = "latitude_esb" -> "lat"
          [] c = "longitude_esb" -> "lon"]

CopyIfPresent(df, other, col) ==
    IF col \in other.columns THEN CopyColumn(df, other, col) ELSE df

\* lines 142-158
green_frame(df_matched_clean_) ==
    LET g1 == Rename(SelectColumns(df_matched_clean_, MatchedColumns),
                     MatchedRename)
        g2 == CopyIfPresent(g1, df_matched_clean_, "name_similarity")
        g3 == CopyIfPresent(g2, df_matched_clean_, "match_confidence")
    IN  SetColumn(SetColumn(g3, "kategori", "Match"), "warna", GREEN)

\* one Match record kept per brand (a drop_duplicates on the brand)
process_green_DropDuplicates(df_matched_clean_) ==
    IF Empty(df_matched_clean_) THEN [data |-> EmptyFrame, error |-> FALSE]
    ELSE IF ~HasColumns(df_matched_clean_, MatchedColumns)
    THEN [data |-> EmptyFrame, error |-> TRUE]
    ELSE LET g == green_frame(df_matched_clean_)
             first(i) == \A j \in 1..(i - 1) :
                            g.rows[j].cells["nama_restoran"]
                               # g.rows[i].cells["nama_restoran"]
             keep == {i \in 1..Len(g.rows) : first(i)}
         IN  [data |-> FilterRows(g, {r \in RowSet(g) :
                     \E i \in keep : g.rows[i].idx = r.idx}),
              error |-> FALSE]

process_green(df_matched_clean_) ==
    IF Empty(df_matched_clean_) THEN [data |-> EmptyFrame, error |-> FALSE]
    ELSE IF ~HasColumns(df_matched_clean_, MatchedColumns)
    THEN [data |-> EmptyFrame, error |-> TRUE]
    ELSE [data |-> green_frame(df_matched_clean_), error |-> FALSE]

EsbColumns == {"brandName", "branchName", "lat", "lon"}

EsbRename ==
    [c \in {"brandName", "branchName"} |->
        IF c = "brandName" THEN "nama_restoran" ELSE "cabang"]

\* isin() given every name of the dataset instead of the unmatched ones
Unmatched_AllNames(df, key, green) ==
    LET names == Unique(df, key)
    IN  FilterRows(df, {r \in RowSet(df) :
                     r.cells[key] \in names})

\* the set difference taken the wrong way round: matched minus own names
Unmatched_Swapped(df, key, green) ==
    LET names == Unique(df, key)
        matched_names == Unique(green, "nama_restoran")
        unmatched_names == matched_names \ names
    IN  FilterRows(df, {r \in RowSet(df) :
                     r.cells[key] \in unmatched_names})

\* names compared after lower-casing
Unmatched_CaseFold(df, key, green) ==
    LET Lower(name) == IF name = "A" THEN "a" ELSE name
        matched_names == {Lower(n) : n \in Unique(green, "nama_restoran")}
    IN  FilterRows(df, {r \in RowSet(df) :
                     Lower(r.cells[key]) \notin matched_names})

\* the rows of df whose key column holds a name absent from green_data
Unmatched(df, key, green) ==
    LET names == Unique(df, key)
        matched_names == Unique(green, "nama_restoran")
        unmatched_names == names \ matched_names
    IN  FilterRows(df, {r \in RowSet(df) :
                     r.cells[key] \in unmatched_names})

\* lines 175-185
orange_frame(esb_unmatched) ==
    LET o1 == Rename(SelectColumns(esb_unmatched, EsbColumns), EsbRename)
        o2 == CopyIfPresent(o1, esb_unmatched, "cityName")
    IN  SetColumn(SetColumn(o2, "kategori", "Hanya ESB"), "warna", ORANGE)

\* the else branch missing: with no Match record esb_unmatched is never
\* bound, the block raises and the output stays empty
process_orange_NoElse(df_esb_clean_, green) ==
    IF Empty(df_esb_clean_) THEN [data |-> EmptyFrame, error |-> FALSE]
    ELSE IF Empty(green) THEN [data |-> EmptyFrame, error |-> TRUE]
    ELSE IF "brandName" \notin df_esb_clean_.columns
    THEN [data |-> EmptyFrame, error |-> TRUE]
    ELSE LET esb_unmatched == Unmatched(df_esb_clean_, "brandName", green)
         IN  IF ~HasColumns(esb_unmatched, EsbColumns)
             THEN [data |-> EmptyFrame, error |-> TRUE]
             ELSE [data |-> orange_frame(esb_unmatched), error |-> FALSE]

process_orange(df_esb_clean_, green) ==
    IF Empty(df_esb_clean_) THEN [data |-> EmptyFrame, error |-> FALSE]
    ELSE IF ~Empty(green) /\ "brandName" \notin df_esb_clean_.columns
    THEN [data |-> EmptyFrame, error |-> TRUE]
    ELSE LET esb_unmatched == IF ~Empty(green)
                              THEN Unmatched(df_esb_clean_, "brandName", green)
                              ELSE df_esb_clean_
         IN  IF ~HasColumns(esb_unmatched, EsbColumns)
             THEN [data |-> EmptyFrame, error |-> TRUE]
             ELSE [data |-> orange_frame(esb_unmatched), error |-> FALSE]

JakartaColumns == {"nama_restoran", "lat", "lon"}

\* lines 202-210
blue_frame(jakarta_unmatched) ==
    LET b1 == SelectColumns(jakarta_unmatched, JakartaColumns)
        b2 == CopyIfPresent(b1, jakarta_unmatched, "Pricing")
        b3 == SetColumn(SetColumn(b2, "cabang", ""), "cityName", "")
    IN  SetColumn(SetColumn(b3, "kategori", "Hanya Jakarta"), "warna", BLUE)

process_blue(df_jakarta_clean_, green) ==
    IF Empty(df_jakarta_clean_) THEN [data |-> EmptyFrame, error |-> FALSE]
    ELSE IF ~Empty(green) /\ "nama_restoran" \notin df_jakarta_clean_.columns
    THEN [data |-> EmptyFrame, error |-> TRUE]
    ELSE LET jakarta_unmatched ==
                 IF ~Empty(green)
                 THEN Unmatched(df_jakarta_clean_, "nama_restoran", green)
                 ELSE df_jakarta_clean_
         IN  IF ~HasColumns(jakarta_unmatched, JakartaColumns)
             THEN [data |-> EmptyFrame, error |-> TRUE]
             ELSE [data |-> blue_frame(jakarta_unmatched), error |-> FALSE]

----------------------------------------------------------------------------
(* load_and_process_data as one call: [raised, green, orange, blue,        *)
(* errors].  raised is TRUE when an exception leaves the function (the     *)
(* cleaning calls stand outside every try block).                          *)

\* st.error(...) inside an except block
Report(raised, what) == IF raised THEN {what} ELSE {}

NoOutput ==
    [raised |-> FALSE, green |-> EmptyFrame, orange |-> EmptyFrame,
     blue |-> EmptyFrame, errors |-> {}]

load_and_process_data(matched, esb, jakarta) ==
    IF ~read_ok(matched, esb, jakarta)
    THEN [NoOutput EXCEPT !.errors = {"loading"}]
    ELSE LET esb_std == standardize_esb(esb.frame)
             jak_std == standardize_jakarta(jakarta.frame)
             m_clean == clean_coordinates(matched.frame, "latitude_esb",
                                          "longitude_esb")
             e_clean == clean_coordinates(esb_std, "lat", "lon")
             j_clean == clean_coordinates(jak_std, "lat", "lon")
         IN  IF IsException(m_clean) \/ IsException(e_clean)
                \/ IsException(j_clean)
             THEN [NoOutput EXCEPT !.raised = TRUE]
             ELSE LET g == process_green(m_clean)
                      o == process_orange(e_clean, g.data)
                      b == process_blue(j_clean, g.data)
                  IN  [raised |-> FALSE, green |-> g.data, orange |-> o.data,
                       blue |-> b.data,
                       errors |-> Report(g.error, "green")
                                  \cup Report(o.error, "orange")
                                  \cup Report(b.error, "blue")]

----------------------------------------------------------------------------
(* Input files.  A row of a file is described by [name, lat, lon]; the     *)
(* file's header decides which columns carry them.                         *)

Names == {"A", "B"}

Points ==
    { [lat |-> Num(-620), lon |-> Num(10680)],     \* inside the region box
      [lat |-> Num(-620), lon |-> Num(20000)],     \* lon = 200.0
      [lat |-> Num(-600), lon |-> Num(10680)],     \* north of the region box
      [lat |-> NaN,       lon |-> Num(10680)] }    \* latitude missing

RowSpecs == {[name |-> n, lat |-> p.lat, lon |-> p.lon] : n \in Names, p \in Points}

MaxTotalRows == 3

SeqsUpTo(S, n) == UNION {[1..k -> S] : k \in 0..n}

CellValue(c, r) ==
    CASE c \in {"brandName_esb", "brandName", "nama_restoran", "Nama Restoran"}
           -> r.name
      [] c \in {"latitude_esb", "lat", "latitude"} -> r.lat
      [] c \in {"longitude_esb", "lon", "longitude"} -> r.lon
      [] c \in {"branchName_esb", "branchName"} -> "1"
      [] c = "name_similarity" -> Num(90)
      [] c = "match_confidence" -> Num(80)
      [] c = "cityName" -> "Jakarta"
      [] c = "Pricing" -> "$$"

\* pd.read_csv of a file with header cols and one line per row description
MkFrame(cols, rs) ==
    [columns |-> cols,
     rows |-> [i \in 1..Len(rs) |->
                 [idx |-> i - 1, cells |-> [c \in cols |-> CellValue(c, rs[i])]]]]

File(cols, rs) == [readable |-> TRUE, frame |-> MkFrame(cols, rs)]

Unreadable == [readable |-> FALSE, frame |-> EmptyFrame]

MatchedHeaders ==
    { MatchedColumns,
      MatchedColumns \cup {"name_similarity", "match_confidence"},
      MatchedColumns \ {"brandName_esb"},
      MatchedColumns \ {"branchName_esb"},
      MatchedColumns \ {"latitude_esb"} }

EsbHeaders ==
    { EsbColumns,
      EsbColumns \cup {"cityName"},
      {"brandName", "branchName", "latitude", "longitude"},
      {"brandName", "branchName", "lat", "longitude"},
      EsbColumns \ {"brandName"},
      EsbColumns \ {"branchName"},
      EsbColumns \ {"lat"} }

JakartaHeaders ==
    { JakartaColumns,
      JakartaColumns \cup {"Pricing"},
      {"Nama Restoran", "latitude", "longitude"},
      {"nama_restoran", "lat", "longitude"},
      JakartaColumns \ {"nama_restoran"},
      JakartaColumns \ {"lon"} }

Row(n, la, lo) == [name |-> n, lat |-> Num(la), lon |-> Num(lo)]

\* the row lists tried under every header
MatchedSamples == { <<>>, <<Row("A", -620, 10680)>> }

EsbSamples ==
    { <<>>,
      <<Row("A", -620, 10680), Row("B", -621, 10681)>>,
      <<Row("B", -600, 10680)>> }

JakartaSamples ==
    { <<Row("A", -620, 10680), Row("C", -622, 10682)>>,
      <<Row("a", -620, 10720)>>,
      <<Row("a", -620, 10680), Row("A", -621, 10681),
        Row("B", -622, 10682)>> }

----------------------------------------------------------------------------
(* Arguments tried on validate_coordinates alone *)

LatValues ==
    {NaN} \cup {Num(x) : x \in {-9001, -9000, -646, -645, -620, -608, -607,
                                0, 9000, 9001}}

LonValues ==
    {NaN} \cup {Num(x) : x \in {-18001, -18000, 0, 10659, 10660, 10680, 10710,
                                10711, 18000, 18001, 20000}}

BoundsChoices ==
    { JAKARTA_BOUNDS,
      [min_lat |-> -100, max_lat |-> 100, min_lon |-> -100, max_lon |-> 100],
      [min_lat |-> -10000, max_lat |-> 10000,
       min_lon |-> -20000, max_lon |-> 20000] }

----------------------------------------------------------------------------
(* The page: default files, session state, statistics, map data.           *)
(*                                                                         *)
(* The files on disk stay as they are for the length of a session, so the  *)
(* st.cache_data wrapper of load_and_process_data returns what a fresh     *)
(* call would and is left out.                                             *)

FileTypes == {"matched", "esb", "jakarta"}

DEFAULT_FILES ==
    [t \in FileTypes |->
        CASE t = "matched" -> "esb_jakarta_matched_comprehensive.csv"
          [] t = "esb" -> "restaurant_esb_baru.csv"
          [] t = "jakarta" -> "restaurants_jakarta.csv"]

\* os.path.exists over Config.DEFAULT_FILES
check_default_files(repo) == {t \in FileTypes : repo[t].exists}

\* what pd.read_csv finds at a path
open_path(path, repo) ==
    IF \E t \in FileTypes : DEFAULT_FILES[t] = path /\ repo[t].exists
    THEN repo[CHOOSE t \in FileTypes : DEFAULT_FILES[t] = path].file
    ELSE Unreadable

NewSession ==
    [data_loaded |-> FALSE, green_data |-> EmptyFrame,
     orange_data |-> EmptyFrame, blue_data |-> EmptyFrame,
     auto_loaded |-> FALSE]

\* the assignments that follow a load call that returned
Store(ss, out) ==
    [ss EXCEPT !.green_data = out.green, !.orange_data = out.orange,
               !.blue_data = out.blue, !.data_loaded = TRUE]

\* the one element of a one-element set: The({F(x) : x \in {e}}) is F(e)
\* with e evaluated once
The(S) == CHOOSE x \in S : TRUE

\* load_and_process_data called on the three default paths
load_default_files(repo) ==
    The({load_and_process_data(f["matched"], f["esb"], f["jakarta"]) :
            f \in {[t \in FileTypes |-> open_path(DEFAULT_FILES[t], repo)]}})

NotCalled ==
    [raised |-> FALSE, returned |-> FALSE, green |-> EmptyFrame,
     orange |-> EmptyFrame, blue |-> EmptyFrame]

\* a load call that ended: by an exception, or with three frames
Called(out) ==
    [raised |-> out.raised, returned |-> ~out.raised, green |-> out.green,
     orange |-> out.orange, blue |-> out.blue]

\* lines 236-259, out being what the load call of line 240 does
auto_load_outcome(ss, available_files, out) ==
    IF Cardinality(available_files) # 3
    THEN [session_state |-> ss, result |-> FALSE, load |-> NotCalled]
    ELSE IF out.raised
    THEN [session_state |-> ss, result |-> FALSE, load |-> Called(out)]
    ELSE [session_state |-> [Store(ss, out) EXCEPT !.auto_loaded = TRUE],
          result |-> TRUE, load |-> Called(out)]

auto_load_data(ss, repo) ==
    The({auto_load_outcome(ss, check_default_files(repo), out) :
            out \in {load_default_files(repo)}})

AUTO == "Auto Load dari Repository"

UPLOAD == "File Upload"

CUSTOM == "Custom Path"

DataSources == {AUTO, UPLOAD, CUSTOM}

\* the automatic load tried on every rerun in Auto mode
wants_auto_load_EveryRerun(source, available_files, ss) ==
    /\ source = AUTO
    /\ Cardinality(available_files) = 3

\* lines 565, 566 and 573
wants_auto_load(source, available_files, ss) ==
    /\ source = AUTO
    /\ Cardinality(available_files) = 3
    /\ ~ss.auto_loaded

\* a file_uploader returns None or an UploadedFile (always truthy); a
\* text_input returns a string, falsy when empty
NoUpload == [given |-> FALSE, file |-> Unreadable]

Uploaded(f) == [given |-> TRUE, file |-> f]

\* the three inputs of the visible mode: [given, file]
inputs_of(source, ups, pths, repo) ==
    [t \in FileTypes |->
        CASE source = UPLOAD -> ups[t]
          [] source = CUSTOM -> [given |-> pths[t] # "",
                                 file |-> open_path(pths[t], repo)]
          [] OTHER -> NoUpload]

\* any() where the code has all()
inputs_complete_Any(inputs) == \E t \in FileTypes : inputs[t].given

\* all([matched_file, esb_file, jakarta_file])
inputs_complete(inputs) == \A t \in FileTypes : inputs[t].given

\* lines 424-427 and the two return statements
create_comprehensive_statistics(green, orange, blue) ==
    LET total_green == IF ~Empty(green) THEN Len(green.rows) ELSE 0
        total_orange == IF ~Empty(orange) THEN Len(orange.rows) ELSE 0
        total_blue == IF ~Empty(blue) THEN Len(blue.rows) ELSE 0
    IN  [total_green |-> total_green, total_orange |-> total_orange,
         total_blue |-> total_blue,
         total_all |-> total_green + total_orange + total_blue]

\* a percentage text: "0%" is [decimals 0, hundredths 0], "33.33%" is
\* [decimals 2, hundredths 3333]
PercentText(decimals, hundredths) ==
    [decimals |-> decimals, hundredths |-> hundredths]

(* Python floats are IEEE 754 doubles.  A non-negative double is            *)
(* [m, e]: the significand m a sequence of bits, most significant first    *)
(* and with no leading zero, and the value m * 2^e.  Long numbers are      *)
(* worked on eight bits at a time (base 256).                              *)

MANT_DIG == 53

RECURSIVE BitsOf(_)
\* the bits of a natural number
BitsOf(n) == IF n = 0 THEN <<>> ELSE Append(BitsOf(n \div 2), n % 2)

RECURSIVE IntOf(_)
IntOf(bits) ==
    IF bits = <<>> THEN 0
    ELSE 2 * IntOf(SubSeq(bits, 1, Len(bits) - 1)) + bits[Len(bits)]

\* bits + 1
Increment(bits) ==
    IF \A i \in 1..Len(bits) : bits[i] = 1
    THEN <<1>> \o [i \in 1..Len(bits) |-> 0]
    ELSE LET z == CHOOSE i \in 1..Len(bits) :
                      bits[i] = 0 /\ \A j \in (i + 1)..Len(bits) : bits[j] = 1
         IN  [i \in 1..Len(bits) |->
                 IF i < z THEN bits[i] ELSE IF i = z THEN 1 ELSE 0]

\* the base-256 digits of a bit sequence, and back
LimbsOf(bits) ==
    LET n == (Len(bits) + 7) \div 8
        pad == 8 * n - Len(bits)
        B(j) == IF j <= pad THEN 0 ELSE bits[j - pad]
    IN  [i \in 1..n |->
            LET o == 8 * (i - 1)
            IN  128 * B(o + 1) + 64 * B(o + 2) + 32 * B(o + 3)
                + 16 * B(o + 4) + 8 * B(o + 5) + 4 * B(o + 6)
                + 2 * B(o + 7) + B(o + 8)]

BitOfLimbs(limbs, j) ==
    (limbs[(j - 1) \div 8 + 1] \div 2^(7 - ((j - 1) % 8))) % 2

\* limbs has no leading zero digit
BitsOfLimbs(limbs) ==
    IF limbs = <<>> THEN <<>>
    ELSE BitsOf(limbs[1])
         \o [j \in 1..(8 * (Len(limbs) - 1)) |-> BitOfLimbs(limbs, 8 + j)]

RECURSIVE TimesLimbs(_, _, _)
\* limbs * c + carry for a small c
TimesLimbs(limbs, c, carry) ==
    IF limbs = <<>> THEN IF carry = 0 THEN <<>> ELSE <<carry>>
    ELSE LET d == limbs[Len(limbs)] * c + carry
         IN  Append(TimesLimbs(SubSeq(limbs, 1, Len(limbs) - 1), c,
                               d \div 256),
                    d % 256)

\* bits * c, exactly
Times(bits, c) == BitsOfLimbs(TimesLimbs(LimbsOf(bits), c, 0))

\* bits rounded to MANT_DIG significant bits, to nearest and a tie to even;
\* dropped is the number of low bits given up
round_to_mantissa(bits) ==
    IF Len(bits) <= MANT_DIG THEN [m |-> bits, dropped |-> 0]
    ELSE LET top == SubSeq(bits, 1, MANT_DIG)
             rest == SubSeq(bits, MANT_DIG + 1, Len(bits))
             up == /\ rest[1] = 1
                   /\ \/ \E i \in 2..Len(rest) : rest[i] = 1
                      \/ top[MANT_DIG] = 1
         IN  [m |-> IF up THEN Increment(top) ELSE top,
              dropped |-> Len(rest)]

RECURSIVE QuotientDigits(_, _, _)
\* long division of r / t in base 256: n digits after the point, each with
\* the remainder it leaves
QuotientDigits(r, t, n) ==
    IF n = 0 THEN <<>>
    ELSE <<[d |-> (r * 256) \div t, r |-> (r * 256) % t]>>
         \o QuotientDigits((r * 256) % t, t, n - 1)

\* part / total_all of two ints (total_all below 2^23): the double nearest
\* to the quotient
truediv(part, total_all) ==
    IF part = 0 THEN [m |-> <<>>, e |-> 0]
    ELSE
    LET whole == BitsOf(part \div total_all)
        digits == QuotientDigits(part % total_all, total_all, 11)
        all == whole \o [j \in 1..(8 * 11) |->
                            (digits[(j - 1) \div 8 + 1].d
                                \div 2^(7 - ((j - 1) % 8))) % 2]
        \* the first digit that is not 0, and the place of the first 1 bit
        d1 == CHOOSE i \in 1..11 :
                  digits[i].d # 0 /\ \A j \in 1..(i - 1) : digits[j].d = 0
        z == IF whole # <<>> THEN 1
             ELSE 8 * d1 - Len(BitsOf(digits[d1].d)) + 1
        \* MANT_DIG significant bits, k of them after the point
        m == SubSeq(all, z, z + MANT_DIG - 1)
        k == z + MANT_DIG - 1 - Len(whole)
        r8 == IF k \div 8 = 0 THEN part % total_all
              ELSE digits[k \div 8].r
        r == (r8 * 2^(k % 8)) % total_all
        up == \/ 2 * r > total_all
              \/ 2 * r = total_all /\ m[MANT_DIG] = 1
    IN  [m |-> IF up THEN Increment(m) ELSE m, e |-> -k]

\* x * c for a double x and a small int c: the double nearest to the product
float_mul(x, c) ==
    LET r == round_to_mantissa(Times(x.m, c))
    IN  [m |-> r.m, e |-> x.e + r.dropped]

\* f"{y:.2f}" in hundredths, for y with no positive exponent: the exact
\* value of the double times 100, rounded to the nearest integer and a tie
\* to even
format_2f(y) ==
    LET c == Times(y.m, 100)
        f == -y.e
        int == IF f >= Len(c) THEN 0 ELSE IntOf(SubSeq(c, 1, Len(c) - f))
        \* the f bits below the point, most significant first
        frac(i) == IF i + Len(c) - f >= 1 THEN c[i + Len(c) - f] ELSE 0
        up == /\ f > 0
              /\ frac(1) = 1
              /\ \/ \E i \in 2..f : frac(i) = 1
                 \/ int % 2 = 1
    IN  IF up THEN int + 1 ELSE int

\* f"{(part/total_all)*100:.2f}%" if total_all > 0 else "0%"
percentage(part, total_all) ==
    IF total_all > 0
    THEN PercentText(2, format_2f(float_mul(truediv(part, total_all), 100)))
    ELSE PercentText(0, 0)

\* summary_data['Persentase'], lines 748-753
Persentase(totals) ==
    << percentage(totals.total_green, totals.total_all),
       percentage(totals.total_orange, totals.total_all),
       percentage(totals.total_blue, totals.total_all),
       PercentText(0, 100 * 100) >>

\* df.copy() with df['layer'] = layer
with_layer(df, layer) == SetColumn(df, "layer", layer)

\* pd.concat(frames, ignore_index=True): the rows in order under a new
\* 0..n-1 index, a column a frame lacks filled with NaN
concat(frames) ==
    LET columns == UNION {frames[k].columns : k \in 1..Len(frames)}
        Fill(r) == [c \in columns |->
                       IF c \in DOMAIN r.cells THEN r.cells[c] ELSE NaN]
        Cat[k \in 0..Len(frames)] ==
            IF k = 0 THEN <<>>
            ELSE Cat[k - 1] \o [i \in 1..Len(frames[k].rows) |->
                                   Fill(frames[k].rows[i])]
        all == Cat[Len(frames)]
    IN  [columns |-> columns,
         rows |-> [i \in 1..Len(all) |-> [idx |-> i - 1, cells |-> all[i]]]]

NoMap == [returned |-> FALSE, data |-> EmptyFrame]

RequiredColumns == {"lon", "lat", "warna", "nama_restoran", "kategori"}

\* every non-empty category plotted, whatever the checkboxes say
create_deck_map_AllLayers(green, orange, blue, layers) ==
    LET layers_data ==
            (IF ~Empty(green) THEN <<with_layer(green, "match")>> ELSE <<>>)
            \o (IF ~Empty(orange) THEN <<with_layer(orange, "esb")>>
                ELSE <<>>)
            \o (IF ~Empty(blue) THEN <<with_layer(blue, "jakarta")>>
                ELSE <<>>)
    IN  IF layers_data = <<>> THEN NoMap
        ELSE [returned |-> TRUE, data |-> concat(layers_data)]

\* lines 267-301: None, or the map over combined_data
create_deck_map(green, orange, blue, layers) ==
    LET layers_data ==
            (IF layers["match"] /\ ~Empty(green)
             THEN <<with_layer(green, "match")>> ELSE <<>>)
            \o (IF layers["esb"] /\ ~Empty(orange)
                THEN <<with_layer(orange, "esb")>> ELSE <<>>)
            \o (IF layers["jakarta"] /\ ~Empty(blue)
                THEN <<with_layer(blue, "jakarta")>> ELSE <<>>)
        combined_data == concat(layers_data)
    IN  IF layers_data = <<>> THEN NoMap
        ELSE IF Empty(combined_data) THEN NoMap
        ELSE IF ~HasColumns(combined_data, RequiredColumns) THEN NoMap
        ELSE [returned |-> TRUE, data |-> combined_data]

LayerNames == {"match", "esb", "jakarta"}

NoTotals ==
    [total_green |-> 0, total_orange |-> 0, total_blue |-> 0, total_all |-> 0]

\* no run of main() yet
NoRun ==
    [ran |-> FALSE, button |-> FALSE, auto_invoked |-> FALSE,
     load_called |-> FALSE, ended |-> "none", totals |-> NoTotals,
     Persentase |-> <<>>, deck_map |-> NoMap]

\* lines 565-574: the session state after the Auto branch and the load call
\* made in it, a being what auto_load_data does when called
auto_step(ss, auto, a) ==
    [session_state |->
         IF auto /\ a.result
         THEN [a.session_state EXCEPT !.auto_loaded = TRUE]
         ELSE IF auto THEN a.session_state
         ELSE ss,
     auto_invoked |-> auto,
     load |-> IF auto THEN a.load ELSE NotCalled]

\* lines 565-574: auto_load_data is called at line 574 only
auto_branch(ss, repo, auto) ==
    The({auto_step(ss, auto, a) :
            a \in {IF auto THEN auto_load_data(ss, repo)
                   ELSE [session_state |-> ss, result |-> FALSE,
                         load |-> NotCalled]}})

\* lines 625-647: the button, out being what the load call of line 632 does
manual_step(s, pressed, complete, out) ==
    LET manual == pressed /\ complete
    IN  [session_state |-> IF manual /\ ~out.raised
                           THEN Store(s.session_state, out)
                           ELSE s.session_state,
         auto_invoked |-> s.auto_invoked,
         button |-> pressed,
         load |-> IF manual THEN Called(out) ELSE s.load,
         returned_early |-> IF pressed /\ ~complete THEN "missing_input"
                            ELSE IF manual /\ out.raised THEN "load_error"
                            ELSE "no"]

\* lines 660-664, 703-710, 743-756: what the page shows of the session data
render(ss, layers, totals) ==
    [totals |-> totals,
     Persentase |-> Persentase(totals),
     deck_map |-> create_deck_map(ss.green_data, ss.orange_data,
                                  ss.blue_data, layers)]

NotRendered == [totals |-> NoTotals, Persentase |-> <<>>, deck_map |-> NoMap]

\* lines 650-797
render_step(s, layers, shown) ==
    LET ended == IF s.returned_early # "no" THEN s.returned_early
                 ELSE IF ~s.session_state.data_loaded THEN "not_loaded"
                 ELSE "rendered"
        page == IF ended = "rendered" THEN shown ELSE NotRendered
    IN  [session_state |-> s.session_state,
         rerun |-> [ran |-> TRUE, button |-> s.button,
                    auto_invoked |-> s.auto_invoked,
                    load_called |-> s.load.raised \/ s.load.returned,
                    ended |-> ended, totals |-> page.totals,
                    Persentase |-> page.Persentase,
                    deck_map |-> page.deck_map],
         load |-> s.load]

\* load_and_process_data called on the three inputs of the visible mode
load_inputs(inputs) ==
    The({load_and_process_data(f["matched"], f["esb"], f["jakarta"]) :
            f \in {[t \in FileTypes |-> inputs[t].file]}})

\* lines 625-647 for the widget values given; the load is called at line
\* 632 only
manual_load(s, pressed, inputs) ==
    The({manual_step(s, pressed, inputs_complete(inputs), out) :
            out \in {IF pressed /\ inputs_complete(inputs)
                     THEN load_inputs(inputs) ELSE NotCalled}})

\* what lines 660-756 show of a session state
show(ss, layers) ==
    render(ss, layers,
           create_comprehensive_statistics(ss.green_data, ss.orange_data,
                                           ss.blue_data))

\* lines 650-797: the statistics are worked out at line 660, past the two
\* early returns
rendered(s, layers) ==
    The({render_step(s, layers, shown) :
            shown \in {IF s.returned_early = "no"
                          /\ s.session_state.data_loaded
                       THEN show(s.session_state, layers)
                       ELSE NotRendered}})

\* one run of main() from top to bottom: the session state it leaves, what
\* it did and showed, and the load call made in it
main(ss, repo, source, layers, ups, pths, button) ==
    The({rendered(after_button, layers) :
            after_button \in
                {manual_load(after_auto, source # AUTO /\ button, inputs) :
                    after_auto \in
                        {auto_branch(ss, repo, auto) :
                            auto \in {wants_auto_load(source,
                                          check_default_files(repo), ss)}},
                    inputs \in {inputs_of(source, ups, pths, repo)}}})

----------------------------------------------------------------------------
(* Files of a session: what the repository holds and what the user has to  *)
(* upload.                                                                 *)

OnDisk(f) == [exists |-> TRUE, file |-> f]

Absent == [exists |-> FALSE, file |-> Unreadable]

Repo(m, e, j) ==
    [t \in FileTypes |->
        CASE t = "matched" -> m [] t = "esb" -> e [] t = "jakarta" -> j]

RepoMatched == File(MatchedColumns, <<Row("A", -620, 10680)>>)

RepoEsb ==
    File(EsbColumns, <<Row("A", -620, 10680), Row("B", -621, 10681)>>)

RepoJakarta ==
    File(JakartaColumns, <<Row("A", -620, 10680), Row("C", -622, 10682)>>)

Repositories ==
    { \* one record in each category
      Repo(OnDisk(RepoMatched), OnDisk(RepoEsb), OnDisk(RepoJakarta)),
      \* the Jakarta file has no longitude column: the load raises
      Repo(OnDisk(RepoMatched), OnDisk(RepoEsb),
           OnDisk(File(JakartaColumns \ {"lon"}, <<Row("C", -622, 10682)>>))),
      \* nothing survives: three empty outputs
      Repo(OnDisk(File(MatchedColumns, <<>>)), OnDisk(File(EsbColumns, <<>>)),
           OnDisk(File(JakartaColumns, <<Row("a", -620, 10720)>>))),
      \* 23 Match and 137 ESB-only records, 160 in all: the shares 14.375%
      \* and 85.625% lie halfway between two hundredths
      Repo(OnDisk(File(MatchedColumns,
                       [i \in 1..23 |-> Row("A", -620, 10680)])),
           OnDisk(File(EsbColumns, [i \in 1..137 |-> Row("B", -621, 10681)])),
           OnDisk(File(JakartaColumns, <<>>))),
      \* a default file missing
      Repo(OnDisk(RepoMatched), OnDisk(RepoEsb), Absent) }

\* the user's own files: 1 Match, 1 ESB-only, 4 Jakarta-only records
UserFiles ==
    Repo(File(MatchedColumns, <<Row("A", -620, 10680)>>),
         File(EsbColumns, <<Row("B", -621, 10681)>>),
         File(JakartaColumns,
              <<Row("B", -621, 10681), Row("C", -622, 10682),
                Row("D", -623, 10683), Row("E", -624, 10684)>>))

NoUploads == [t \in FileTypes |-> NoUpload]

\* what the user types into the path field of file t: nothing, the default
\* name, or the name of a file that does not exist
TypedPaths(t) == {"", DEFAULT_FILES[t], "nope.csv"}

\* the length of the sessions explored, in runs of main()
MaxReruns == 5

AllLayers == [l \in LayerNames |-> TRUE]

----------------------------------------------------------------------------
(* Initial states: either a call of load_and_process_data about to start,  *)
(* or a call of validate_coordinates about to start.                       *)

PageIdle ==
    /\ repository = Repo(Absent, Absent, Absent)
    /\ session_state = NewSession
    /\ data_source = AUTO
    /\ show_layers = AllLayers
    /\ uploads = NoUploads
    /\ paths = DEFAULT_FILES
    /\ rerun = NoRun
    /\ last_load = NotCalled
    /\ reruns = 0

PipelineIdle ==
    /\ df_matched = EmptyFrame /\ df_esb_full = EmptyFrame
    /\ df_jakarta_full = EmptyFrame
    /\ df_matched_clean = EmptyFrame /\ df_esb_clean = EmptyFrame
    /\ df_jakarta_clean = EmptyFrame
    /\ green_data = EmptyFrame /\ orange_data = EmptyFrame
    /\ blue_data = EmptyFrame
    /\ errors = {}

ValidateIdle ==
    /\ v_pc = "idle" /\ v_lat = NaN /\ v_lon = NaN
    /\ v_bounds = JAKARTA_BOUNDS /\ v_result = FALSE

InitRows ==
    \E m \in SeqsUpTo(RowSpecs, MaxTotalRows) :
      \E e \in SeqsUpTo(RowSpecs, MaxTotalRows - Len(m)) :
        \E j \in SeqsUpTo(RowSpecs, MaxTotalRows - Len(m) - Len(e)) :
          /\ matched_file = File(MatchedColumns, m)
          /\ esb_file = File(EsbColumns, e)
          /\ jakarta_file = File(JakartaColumns, j)

InitHeaders ==
    \E mh \in MatchedHeaders, eh \in EsbHeaders, jh \in JakartaHeaders :
      \E ms \in MatchedSamples, es \in EsbSamples, js \in JakartaSamples :
          /\ matched_file = File(mh, ms)
          /\ esb_file = File(eh, es)
          /\ jakarta_file = File(jh, js)

InitUnreadable ==
    \E um \in BOOLEAN, ue \in BOOLEAN, uj \in BOOLEAN :
      \E ms \in MatchedSamples, es \in EsbSamples, js \in JakartaSamples :
          /\ um \/ ue \/ uj
          /\ matched_file = IF um THEN Unreadable ELSE File(MatchedColumns, ms)
          /\ esb_file = IF ue THEN Unreadable ELSE File(EsbColumns, es)
          /\ jakarta_file = IF uj THEN Unreadable ELSE File(JakartaColumns, js)

InitPipeline ==
    /\ pc = "start"
    /\ InitRows \/ InitHeaders \/ InitUnreadable
    /\ PipelineIdle
    /\ ValidateIdle
    /\ PageIdle

InitValidate ==
    /\ pc = "idle"
    /\ matched_file = Unreadable /\ esb_file = Unreadable
    /\ jakarta_file = Unreadable
    /\ PipelineIdle
    /\ v_pc = "call"
    /\ v_lat \in LatValues /\ v_lon \in LonValues
    /\ v_bounds \in BoundsChoices
    /\ v_result = FALSE
    /\ PageIdle

Init == InitPipeline \/ InitValidate

----------------------------------------------------------------------------
(* Steps of load_and_process_data *)

\* lines 80-103: read the three files; any failure returns three empty frames
ReadFiles ==
    /\ pc = "start"
    /\ IF read_ok(matched_file, esb_file, jakarta_file)
       THEN /\ df_matched' = matched_file.frame
            /\ df_esb_full' = esb_file.frame
            /\ df_jakarta_full' = jakarta_file.frame
            /\ errors' = errors
            /\ pc' = "standardize"
       ELSE /\ errors' = errors \cup {"loading"}
            /\ pc' = "returned"
            /\ UNCHANGED <<df_matched, df_esb_full, df_jakarta_full>>
    /\ UNCHANGED <<matched_file, esb_file, jakarta_file, df_matched_clean,
                   df_esb_clean, df_jakarta_clean, green_data, orange_data,
                   blue_data, valVars, pageVars>>

\* lines 105-125
Standardize ==
    /\ pc = "standardize"
    /\ df_esb_full' = standardize_esb(df_esb_full)
    /\ df_jakarta_full' = standardize_jakarta(df_jakarta_full)
    /\ pc' = "clean"
    /\ UNCHANGED <<matched_file, esb_file, jakarta_file, df_matched,
                   df_matched_clean, df_esb_clean, df_jakarta_clean,
                   green_data, orange_data, blue_data, errors, valVars, pageVars>>

\* lines 127-132: the three cleanings, outside any try block
CleanCoordinates ==
    /\ pc = "clean"
    /\ LET m == clean_coordinates(df_matched, "latitude_esb", "longitude_esb")
           e == clean_coordinates(df_esb_full, "lat", "lon")
           j == clean_coordinates(df_jakarta_full, "lat", "lon")
       IN  IF IsException(m) \/ IsException(e) \/ IsException(j)
           THEN \* the KeyError leaves the function; the assignments made
                \* before the raising call stand
                /\ pc' = "raised"
                /\ df_matched_clean' =
                       IF IsException(m) THEN df_matched_clean ELSE m
                /\ df_esb_clean' =
                       IF IsException(m) \/ IsException(e) THEN df_esb_clean
                       ELSE e
                /\ UNCHANGED df_jakarta_clean
           ELSE /\ pc' = "green"
                /\ df_matched_clean' = m
                /\ df_esb_clean' = e
                /\ df_jakarta_clean' = j
    /\ UNCHANGED <<matched_file, esb_file, jakarta_file, df_matched,
                   df_esb_full, df_jakarta_full, green_data, orange_data,
                   blue_data, errors, valVars, pageVars>>

\* lines 139-161
ProcessGreen ==
    /\ pc = "green"
    /\ LET g == process_green(df_matched_clean)
       IN  /\ green_data' = g.data
           /\ errors' = errors \cup Report(g.error, "green")
    /\ pc' = "orange"
    /\ UNCHANGED <<matched_file, esb_file, jakarta_file, df_matched,
                   df_esb_full, df_jakarta_full, df_matched_clean,
                   df_esb_clean, df_jakarta_clean, orange_data, blue_data,
                   valVars, pageVars>>

\* lines 163-188
ProcessOrange ==
    /\ pc = "orange"
    /\ LET o == process_orange(df_esb_clean, green_data)
       IN  /\ orange_data' = o.data
           /\ errors' = errors \cup Report(o.error, "orange")
    /\ pc' = "blue"
    /\ UNCHANGED <<matched_file, esb_file, jakarta_file, df_matched,
                   df_esb_full, df_jakarta_full, df_matched_clean,
                   df_esb_clean, df_jakarta_clean, green_data, blue_data,
                   valVars, pageVars>>

\* lines 190-216: the blue block, then the return of the three frames
ProcessBlue ==
    /\ pc = "blue"
    /\ LET b == process_blue(df_jakarta_clean, green_data)
       IN  /\ blue_data' = b.data
           /\ errors' = errors \cup Report(b.error, "blue")
    /\ pc' = "returned"
    /\ UNCHANGED <<matched_file, esb_file, jakarta_file, df_matched,
                   df_esb_full, df_jakarta_full, df_matched_clean,
                   df_esb_clean, df_jakarta_clean, green_data, orange_data,
                   valVars, pageVars>>

\* lines 41-54, under the configured bounds
Validate ==
    /\ v_pc = "call"
    /\ v_result' = validate_with(v_lat, v_lon, v_bounds)
    /\ v_pc' = "returned"
    /\ UNCHANGED <<v_lat, v_lon, v_bounds, pipeVars, pageVars>>

Next ==
    \/ ReadFiles
    \/ Standardize
    \/ CleanCoordinates
    \/ ProcessGreen
    \/ ProcessOrange
    \/ ProcessBlue
    \/ Validate

Spec == Init /\ [][Next]_vars

----------------------------------------------------------------------------
(* The page: every interaction reruns main() with the new widget values.   *)

\* a browser session about to open the page: empty session state, every
\* widget at its default
InitPage ==
    /\ pc = "idle"
    /\ matched_file = Unreadable /\ esb_file = Unreadable
    /\ jakarta_file = Unreadable
    /\ PipelineIdle
    /\ ValidateIdle
    /\ repository \in Repositories
    /\ session_state = NewSession
    /\ data_source = AUTO
    /\ show_layers = AllLayers
    /\ uploads = NoUploads
    /\ paths = DEFAULT_FILES
    /\ rerun = NoRun
    /\ last_load = NotCalled
    /\ reruns = 0

\* A run of main() is stopped when the user acts while it runs: at its next
\* st.* call or its next access of st.session_state (a RerunException, which
\* is no Exception: lines 254 and 643 do not catch it).  The places where run
\* m can be stopped, by what has happened before:
\*   start           line 532 up to the Auto branch or the button: nothing
\*                   yet
\*   entered         auto_load_data or the button's branch entered, no load
\*                   called yet (lines 227, 239, 627, 630)
\*   load            inside load_and_process_data (lines 99 to 215)
\*   at_green        at line 246 or 636: the load has returned, nothing is
\*                   stored
\*   at_orange       at line 247 or 637: green_data is stored
\*   at_blue         at line 248 or 638: green_data and orange_data are
\*   at_data_loaded  at line 249 or 639: the three datasets are
\*   at_auto_loaded  at line 250: data_loaded is set, auto_loaded is not
\*   after_load      past the load section (lines 252, 255, 575, 641 to 646,
\*                   593 to 797): the page is left unfinished
stop_points(m) ==
    {"start", "after_load"}
    \cup (IF m.rerun.auto_invoked \/ m.rerun.button THEN {"entered"} ELSE {})
    \cup (IF m.rerun.load_called THEN {"load"} ELSE {})
    \cup (IF m.load.returned
          THEN {"at_green", "at_orange", "at_blue", "at_data_loaded"}
          ELSE {})
    \cup (IF m.load.returned /\ m.rerun.auto_invoked
          THEN {"at_auto_loaded"} ELSE {})

\* the places at which a part of the load's results is in the session state
StoredAt == {"at_orange", "at_blue", "at_data_loaded", "at_auto_loaded"}

\* the session state when the assignments of lines 246-250 or 636-639 are
\* cut short at place at, out being what the load returned
partly_stored(ss, out, at) ==
    CASE at = "at_orange" -> [ss EXCEPT !.green_data = out.green]
      [] at = "at_blue" ->
            [ss EXCEPT !.green_data = out.green, !.orange_data = out.orange]
      [] at = "at_data_loaded" ->
            [ss EXCEPT !.green_data = out.green, !.orange_data = out.orange,
                       !.blue_data = out.blue]
      [] at = "at_auto_loaded" -> Store(ss, out)
      [] OTHER -> ss

\* run m of main(), started with session state ss, stopped at place at.
\* Nothing is recorded of the unfinished page.
stopped(ss, m, at) ==
    LET before == at \in {"start", "entered", "load"}
    IN  [session_state |-> IF at = "after_load" THEN m.session_state
                           ELSE partly_stored(ss, m.load, at),
         rerun |->
             [ran |-> TRUE,
              button |-> at # "start" /\ m.rerun.button,
              auto_invoked |-> at # "start" /\ m.rerun.auto_invoked,
              load_called |-> at \notin {"start", "entered"}
                              /\ m.rerun.load_called,
              ended |-> "stopped",
              totals |-> NoTotals,
              Persentase |-> <<>>,
              deck_map |-> NoMap],
         load |-> IF before THEN NotCalled ELSE m.load]

\* run m to its end ("end") or stopped at place at
outcome(ss, m, at) == IF at = "end" THEN m ELSE stopped(ss, m, at)

\* main() run with the widget values given, to its end or until it is
\* stopped.  When a run ends, the widgets it did not draw are gone and come
\* back at their defaults (the uploaders outside 'File Upload', the path
\* fields outside 'Custom Path'); after a stopped run the browser still
\* holds every widget of the run before.
Run(source, layers, ups, pths, button) ==
    /\ reruns < MaxReruns
    /\ \E m \in {main(session_state, repository, source, layers, ups, pths,
                     button)} :
         \E at \in {"end"} \cup stop_points(m) :
           \E o \in {outcome(session_state, m, at)} :
             /\ session_state' = o.session_state
             /\ rerun' = o.rerun
             /\ last_load' = IF m.load.returned
                                /\ at \in StoredAt \cup {"after_load", "end"}
                             THEN m.load ELSE last_load
             /\ data_source' = source
             /\ show_layers' = layers
             /\ uploads' = IF at # "end" \/ source = UPLOAD THEN ups
                           ELSE NoUploads
             /\ paths' = IF at # "end" \/ source = CUSTOM THEN pths
                         ELSE DEFAULT_FILES
             /\ reruns' = reruns + 1
             /\ UNCHANGED <<repository, pipeVars, valVars>>

\* the first run of the script
OpenPage ==
    /\ ~rerun.ran
    /\ Run(data_source, show_layers, uploads, paths, FALSE)

\* the radio
SelectSource ==
    /\ rerun.ran
    /\ \E source \in DataSources \ {data_source} :
          Run(source, show_layers, uploads, paths, FALSE)

\* one of the layer checkboxes
ToggleLayer ==
    /\ rerun.ran
    /\ \E l \in LayerNames :
          Run(data_source, [show_layers EXCEPT ![l] = ~show_layers[l]],
              uploads, paths, FALSE)

\* a file put into or taken out of one of the three uploaders
Upload ==
    /\ rerun.ran
    /\ data_source = UPLOAD
    /\ \E t \in FileTypes :
          Run(data_source, show_layers,
              [uploads EXCEPT ![t] = IF uploads[t].given THEN NoUpload
                                     ELSE Uploaded(UserFiles[t])],
              paths, FALSE)

\* another text typed into one of the three path fields
EditPath ==
    /\ rerun.ran
    /\ data_source = CUSTOM
    /\ \E t \in FileTypes :
          \E typed \in TypedPaths(t) \ {paths[t]} :
             Run(data_source, show_layers, uploads,
                 [paths EXCEPT ![t] = typed], FALSE)

\* the load button, drawn outside Auto mode only
PressLoad ==
    /\ rerun.ran
    /\ data_source # AUTO
    /\ Run(data_source, show_layers, uploads, paths, TRUE)

\* map style, marker size or performance mode changed
AdjustMap ==
    /\ rerun.ran
    /\ Run(data_source, show_layers, uploads, paths, FALSE)

PageNext ==
    \/ OpenPage
    \/ SelectSource
    \/ ToggleLayer
    \/ Upload
    \/ EditPath
    \/ PressLoad
    \/ AdjustMap

PageSpec == InitPage /\ [][PageNext]_vars


----------------------------------------------------------------------------
(* Vocabulary of the properties *)

\* the call has ended, by a return or by an exception
Ended == pc \in {"returned", "raised"}

\* the three files were read
AllReadable ==
    matched_file.readable /\ esb_file.readable /\ jakarta_file.readable

FilesRead == pc # "idle" /\ AllReadable

Rows(df) == {df.rows[i] : i \in 1..Len(df.rows)}

Indices(df) == [i \in 1..Len(df.rows) |-> df.rows[i].idx]

\* output record o is input record r: same index label, identity and
\* coordinates
SameRecord(o, r, key, lat_col, lon_col) ==
    /\ o.idx = r.idx
    /\ o.cells["nama_restoran"] = r.cells[key]
    /\ o.cells["lat"] = r.cells[lat_col]
    /\ o.cells["lon"] = r.cells[lon_col]

Tagged(o, kategori, warna) ==
    o.cells["kategori"] = kategori /\ o.cells["warna"] = warna

\* out holds exactly the records of clean, in the same order, tagged
SameRecords(out, clean, key, kategori, warna) ==
    /\ Len(out.rows) = Len(clean.rows)
    /\ \A i \in 1..Len(clean.rows) :
         /\ HasColumns(clean, {key, "lat", "lon"})
         /\ SameRecord(out.rows[i], clean.rows[i], key, "lat", "lon")
         /\ Tagged(out.rows[i], kategori, warna)

InBox(lat, lon) ==
    /\ ~isna(lat) /\ ~isna(lon)
    /\ JAKARTA_BOUNDS.min_lat <= lat[1] /\ lat[1] <= JAKARTA_BOUNDS.max_lat
    /\ JAKARTA_BOUNDS.min_lon <= lon[1] /\ lon[1] <= JAKARTA_BOUNDS.max_lon

NamesOf(df) == [i \in 1..Len(df.rows) |-> df.rows[i].cells["nama_restoran"]]

\* the cleaned ESB record r has the brand of some Match record
InMatchClass(r) ==
    /\ "brandName" \in DOMAIN r.cells
    /\ \E g \in Rows(green_data) :
          g.cells["nama_restoran"] = r.cells["brandName"]

\* how many records of out are the input record r
Occurrences(out, r, key) ==
    Cardinality({k \in 1..Len(out.rows) :
                    /\ key \in DOMAIN r.cells
                    /\ SameRecord(out.rows[k], r, key, "lat", "lon")})

ExactlyOneClass(r) ==
    \/ InMatchClass(r) /\ Occurrences(orange_data, r, "brandName") = 0
    \/ ~InMatchClass(r) /\ Occurrences(orange_data, r, "brandName") = 1

----------------------------------------------------------------------------
(* C1 *)

\* C1 as stated: for every input the call returns from, each ESB record that survives coordinate
\* cleaning either has the brand of some Match record or appears exactly
\* once in the ESB-only output, never both and never neither.
C1_Partition ==
    (pc = "returned" /\ FilesRead) => \A r \in Rows(df_esb_clean) : ExactlyOneClass(r)

\* C1 amended: when the call returns and the ESB dataset has its brandName
\* and branchName columns, each ESB record that survives coordinate cleaning
\* either has the brand of some Match record or appears exactly once in the
\* ESB-only output, never both and never neither.
C1_PartitionWithColumns ==
    (pc = "returned" /\ HasColumns(df_esb_clean, {"brandName", "branchName"}))
        => \A r \in Rows(df_esb_clean) : ExactlyOneClass(r)

C1_Witness ==
    /\ pc = "returned"
    /\ \E r1, r2 \in Rows(df_esb_clean) :
          /\ InMatchClass(r1)
          /\ ~InMatchClass(r2)
          /\ Occurrences(orange_data, r2, "brandName") = 1

----------------------------------------------------------------------------
(* C2 *)

ScenarioStarted ==
    /\ matched_file = File(MatchedColumns, <<Row("A", -620, 10680)>>)
    /\ esb_file = File(EsbColumns,
                       <<Row("A", -620, 10680), Row("B", -621, 10681)>>)
    /\ jakarta_file = File(JakartaColumns,
                           <<Row("A", -620, 10680), Row("C", -622, 10682)>>)

\* C2 as stated: on the scenario matched = [A], esb_full = [A, B],
\* jakarta_full = [A, C] the Match output is the one row A, the ESB-only
\* output the one row B and the Jakarta-only output the two rows A and C.
C2_Scenario ==
    (pc = "returned" /\ ScenarioStarted)
        => /\ NamesOf(green_data) = <<"A">>
           /\ NamesOf(orange_data) = <<"B">>
           /\ NamesOf(blue_data) = <<"A", "C">>

----------------------------------------------------------------------------
(* C3 *)

MatchedInputEmpty == FilesRead /\ matched_file.frame.rows = <<>>

\* C3 as stated: from an empty matched input the call returns the cleaned
\* ESB records as the ESB-only output and the cleaned Jakarta records as the
\* Jakarta-only output, same rows, order and values, only tagged.
C3_EmptyMatched ==
    (pc = "returned" /\ MatchedInputEmpty)
        => /\ SameRecords(orange_data, df_esb_clean, "brandName",
                          "Hanya ESB", ORANGE)
           /\ SameRecords(blue_data, df_jakarta_clean, "nama_restoran",
                          "Hanya Jakarta", BLUE)

\* C3 amended: when the call returns from an empty matched input, the
\* ESB-only output is exactly the cleaned ESB records provided the ESB
\* dataset has its brandName and branchName columns, and the Jakarta-only
\* output is exactly the cleaned Jakarta records provided the Jakarta
\* dataset has its nama_restoran column (same rows, order and values, only
\* the tags added).
C3_EmptyMatchedWithColumns ==
    (pc = "returned" /\ MatchedInputEmpty)
        => /\ HasColumns(df_esb_clean, {"brandName", "branchName"})
                => SameRecords(orange_data, df_esb_clean, "brandName",
                               "Hanya ESB", ORANGE)
           /\ HasColumns(df_jakarta_clean, {"nama_restoran"})
                => SameRecords(blue_data, df_jakarta_clean, "nama_restoran",
                               "Hanya Jakarta", BLUE)

C3_Witness ==
    /\ pc = "returned"
    /\ MatchedInputEmpty
    /\ Len(orange_data.rows) >= 1
    /\ Len(blue_data.rows) >= 1
    /\ Len(esb_file.frame.rows) > Len(orange_data.rows)

----------------------------------------------------------------------------
(* C4 *)

\* the records of df that lack a coordinate or lie outside the region box
\* are absent from out
DroppedStayOut(df, lat_col, lon_col, out) ==
    \A r \in Rows(df) :
        (HasColumns(df, {lat_col, lon_col})
            /\ ~InBox(r.cells[lat_col], r.cells[lon_col]))
        => \A o \in Rows(out) : o.idx # r.idx

\* C4: every record of the three outputs has both coordinates present and
\* inside the region box, and an input row with a missing or out-of-box
\* coordinate appears in no output.
C4_OutputsInBox ==
    /\ \A out \in {green_data, orange_data, blue_data} :
          \A o \in Rows(out) : InBox(o.cells["lat"], o.cells["lon"])
    /\ DroppedStayOut(df_matched, "latitude_esb", "longitude_esb", green_data)
    /\ DroppedStayOut(df_esb_full, "lat", "lon", orange_data)
    /\ DroppedStayOut(df_jakarta_full, "lat", "lon", blue_data)

C4_Witness ==
    /\ pc = "returned"
    /\ \E r \in Rows(df_esb_full) :
          r.cells["lat"] = Num(-620) /\ r.cells["lon"] = Num(20000)
    /\ Len(orange_data.rows) >= 1

----------------------------------------------------------------------------
(* C5 *)

\* C5 as stated: a dataset that lacks a required column has an empty output
\* and an error report, and the call still returns normally.
C5_PartialFailure ==
    (Ended /\ FilesRead)
        => /\ ~HasColumns(df_matched, MatchedColumns)
                => /\ pc = "returned"
                   /\ Empty(green_data)
                   /\ ~Empty(df_matched_clean) => "green" \in errors
           /\ ~HasColumns(df_esb_full, EsbColumns)
                => /\ pc = "returned"
                   /\ Empty(orange_data)
                   /\ ~Empty(df_esb_clean) => "orange" \in errors
           /\ ~HasColumns(df_jakarta_full, JakartaColumns)
                => /\ pc = "returned"
                   /\ Empty(blue_data)
                   /\ ~Empty(df_jakarta_clean) => "blue" \in errors

----------------------------------------------------------------------------
(* C6 *)

\* the matched input records with valid coordinates, in file order
ValidMatched ==
    SelectSeq(df_matched.rows, LAMBDA r :
        /\ HasColumns(df_matched, {"latitude_esb", "longitude_esb"})
        /\ InBox(r.cells["latitude_esb"], r.cells["longitude_esb"]))

MatchIsValidMatched ==
    /\ Len(green_data.rows) = Len(ValidMatched)
    /\ \A i \in 1..Len(ValidMatched) :
          /\ "brandName_esb" \in df_matched.columns
          /\ SameRecord(green_data.rows[i], ValidMatched[i], "brandName_esb",
                        "latitude_esb", "longitude_esb")
          /\ Tagged(green_data.rows[i], "Match", GREEN)

\* C6 as stated: the Match output holds exactly one record for each matched
\* input record with valid coordinates and no other, each tagged 'Match'
\* and [0, 255, 0, 200].
C6_MatchExact == (pc = "returned" /\ FilesRead) => MatchIsValidMatched

\* C6 amended: when the call returns and the matched dataset has its
\* brandName_esb and branchName_esb columns, the Match output holds exactly
\* one record for each matched input record with valid coordinates and no
\* other, each tagged 'Match' and [0, 255, 0, 200].
C6_MatchExactWithColumns ==
    (pc = "returned" /\ FilesRead
        /\ HasColumns(df_matched, {"brandName_esb", "branchName_esb"}))
        => MatchIsValidMatched

C6_Witness ==
    /\ pc = "returned"
    /\ Len(green_data.rows) >= 1
    /\ Len(df_matched.rows) > Len(green_data.rows)

----------------------------------------------------------------------------
(* C7 *)

InAbsoluteRange(lat, lon) ==
    /\ -9000 <= lat[1] /\ lat[1] <= 9000
    /\ -18000 <= lon[1] /\ lon[1] <= 18000

InRegion(lat, lon, b) ==
    /\ b.min_lat <= lat[1] /\ lat[1] <= b.max_lat
    /\ b.min_lon <= lon[1] /\ lon[1] <= b.max_lon

\* C7: validate_coordinates answers true for every valid pair (both values
\* present, within [-90, 90] x [-180, 180]) inside the configured region
\* bounds, false for every pair outside [-90, 90] x [-180, 180] whatever
\* the region bounds, and false when a value is missing; it always answers.
C7_Validate ==
    v_pc = "returned"
        => /\ v_result \in BOOLEAN
           /\ (isna(v_lat) \/ isna(v_lon)) => v_result = FALSE
           /\ (~isna(v_lat) /\ ~isna(v_lon) /\ ~InAbsoluteRange(v_lat, v_lon))
                => v_result = FALSE
           /\ (~isna(v_lat) /\ ~isna(v_lon) /\ InAbsoluteRange(v_lat, v_lon)
                 /\ InRegion(v_lat, v_lon, v_bounds))
                => v_result = TRUE

C7_Witness ==
    /\ v_pc = "returned"
    /\ v_lat = Num(9001)
    /\ ~isna(v_lon)
    /\ InRegion(v_lat, v_lon, v_bounds)
    /\ v_result = FALSE

----------------------------------------------------------------------------
(* C8 *)

Cleaned == pc \in {"green", "orange", "blue", "returned"}

\* C8: cleaning a cleaned dataset changes nothing, rows and order included,
\* and cleaning an empty dataset returns it.
C8_CleanIdempotent ==
    /\ Cleaned =>
          /\ clean_coordinates(df_matched_clean, "latitude_esb",
                               "longitude_esb") = df_matched_clean
          /\ clean_coordinates(df_esb_clean, "lat", "lon") = df_esb_clean
          /\ clean_coordinates(df_jakarta_clean, "lat", "lon")
                = df_jakarta_clean
    /\ (pc = "clean" /\ Empty(df_esb_full))
          => clean_coordinates(df_esb_full, "lat", "lon") = df_esb_full

C8_Witness ==
    /\ pc = "green"
    /\ Len(df_esb_clean.rows) >= 2
    /\ Len(df_esb_full.rows) > Len(df_esb_clean.rows)

----------------------------------------------------------------------------
(* C9 *)

CanonicalName(c) ==
    CASE c = "longitude" -> "lon"
      [] c = "latitude" -> "lat"
      [] c = "Nama Restoran" -> "nama_restoran"
      [] OTHER -> c

\* after is before with every alias column renamed and nothing else changed
Harmonized(before, after) ==
    /\ after.columns = {CanonicalName(c) : c \in before.columns}
    /\ Indices(after) = Indices(before)
    /\ \A i \in 1..Len(before.rows) : \A c \in before.columns :
          after.rows[i].cells[CanonicalName(c)] = before.rows[i].cells[c]

\* C9 as stated: harmonization renames every alias column of a source
\* dataset (longitude, latitude, 'Nama Restoran') to its canonical name,
\* each alias on its own, and leaves the other columns as they are.
C9_Harmonized ==
    (FilesRead /\ pc \notin {"start", "standardize"})
        => /\ Harmonized(esb_file.frame, df_esb_full)
           /\ Harmonized(jakarta_file.frame, df_jakarta_full)

----------------------------------------------------------------------------
(* C10 *)

\* C10: when a source file cannot be read the call reports the error and
\* returns three empty outputs; no exception leaves the call.
C10_LoadError ==
    (pc \notin {"idle", "start"} /\ ~AllReadable)
        => /\ pc = "returned"
           /\ "loading" \in errors
           /\ green_data = EmptyFrame
           /\ orange_data = EmptyFrame
           /\ blue_data = EmptyFrame

C10_Witness ==
    /\ pc = "returned"
    /\ matched_file.readable
    /\ ~esb_file.readable
    /\ "loading" \in errors

----------------------------------------------------------------------------
(* C12 *)

MatchNames == {g.cells["nama_restoran"] : g \in Rows(green_data)}

\* the ESB record e and the Jakarta record j carry one name, absent from
\* the Match output
SharedUnmatchedName(e, j) ==
    /\ "brandName" \in DOMAIN e.cells
    /\ "nama_restoran" \in DOMAIN j.cells
    /\ e.cells["brandName"] = j.cells["nama_restoran"]
    /\ e.cells["brandName"] \notin MatchNames

InBothOnly(e, j) ==
    /\ \E o \in Rows(orange_data) :
          o.idx = e.idx /\ o.cells["nama_restoran"] = e.cells["brandName"]
    /\ \E b \in Rows(blue_data) :
          b.idx = j.idx /\ b.cells["nama_restoran"] = j.cells["nama_restoran"]

\* C12 as stated, read of the records with valid coordinates: with a
\* non-empty matched set, an ESB record and a Jakarta record that carry the
\* same name, absent from the matched set, appear in the ESB-only and in
\* the Jakarta-only output of the same result.
C12_BothOnly ==
    (pc = "returned" /\ ~Empty(green_data))
        => \A e \in Rows(df_esb_clean) : \A j \in Rows(df_jakarta_clean) :
              SharedUnmatchedName(e, j) => InBothOnly(e, j)

\* C12 amended: with a non-empty Match output, an ESB record and a
\* Jakarta record that both survive coordinate cleaning and carry the same
\* name, absent from the Match output, appear in the ESB-only and in the
\* Jakarta-only output of the same result, provided the ESB dataset has its
\* branchName column.
C12_BothOnlyCleaned ==
    (pc = "returned" /\ ~Empty(green_data)
        /\ "branchName" \in df_esb_clean.columns)
        => \A e \in Rows(df_esb_clean) : \A j \in Rows(df_jakarta_clean) :
              SharedUnmatchedName(e, j) => InBothOnly(e, j)

C12_Witness ==
    /\ pc = "returned"
    /\ ~Empty(green_data)
    /\ \E e \in Rows(df_esb_clean) : \E j \in Rows(df_jakarta_clean) :
          SharedUnmatchedName(e, j) /\ InBothOnly(e, j)

----------------------------------------------------------------------------
(* C13 *)

\* C13 as stated: with a non-empty Match output, a cleaned Jakarta record
\* is absent from the Jakarta-only output exactly when its restaurant name
\* is, as the same string, the name of some Match record; every other
\* cleaned Jakarta record (one without a restaurant name included) is in
\* Jakarta-only exactly once, and no Jakarta-only record has the name of a
\* Match record.
C13_JakartaOnly ==
    (pc = "returned" /\ ~Empty(green_data))
        => /\ \A j \in Rows(df_jakarta_clean) :
                LET excluded == /\ "nama_restoran" \in DOMAIN j.cells
                                /\ j.cells["nama_restoran"] \in MatchNames
                IN  \/ /\ excluded
                       /\ Occurrences(blue_data, j, "nama_restoran") = 0
                    \/ /\ ~excluded
                       /\ Occurrences(blue_data, j, "nama_restoran") = 1
           /\ Len(blue_data.rows) <= Len(df_jakarta_clean.rows)
           /\ \A b \in Rows(blue_data) :
                b.cells["nama_restoran"] \notin MatchNames

\* a Jakarta dataset without the nama_restoran column beside a non-empty
\* Match output: line 195 raises, the Jakarta-only output is empty
C13_NoNameColumn ==
    /\ pc = "returned" /\ ~Empty(green_data)
    /\ "nama_restoran" \notin df_jakarta_clean.columns
    /\ ~Empty(df_jakarta_clean)
    /\ Empty(blue_data)

\* C13 amended: with a non-empty Match output and a Jakarta dataset that has
\* the nama_restoran column, a cleaned Jakarta record is absent from the
\* Jakarta-only output exactly when its restaurant name is, as the same
\* string, the name of some Match record; every other cleaned Jakarta
\* record is in Jakarta-only exactly once, and no Jakarta-only record has
\* the name of a Match record.  Without the column the Jakarta-only output
\* is empty.
C13_JakartaOnlyWithColumn ==
    /\ (pc = "returned" /\ ~Empty(green_data)
           /\ "nama_restoran" \in df_jakarta_clean.columns)
          => /\ \A j \in Rows(df_jakarta_clean) :
                  \/ /\ j.cells["nama_restoran"] \in MatchNames
                     /\ Occurrences(blue_data, j, "nama_restoran") = 0
                  \/ /\ j.cells["nama_restoran"] \notin MatchNames
                     /\ Occurrences(blue_data, j, "nama_restoran") = 1
             /\ Len(blue_data.rows) <= Len(df_jakarta_clean.rows)
             /\ \A b \in Rows(blue_data) :
                  b.cells["nama_restoran"] \notin MatchNames
    /\ (pc = "returned" /\ ~Empty(green_data)
           /\ "nama_restoran" \notin df_jakarta_clean.columns)
          => Empty(blue_data)

\* a Jakarta record named "a" kept beside a Match record named "A", and a
\* Jakarta record named "A" left out
C13_Witness ==
    /\ pc = "returned"
    /\ "nama_restoran" \in df_jakarta_clean.columns
    /\ "A" \in MatchNames
    /\ \E j \in Rows(df_jakarta_clean) :
          /\ j.cells["nama_restoran"] = "a"
          /\ Occurrences(blue_data, j, "nama_restoran") = 1
    /\ \E j \in Rows(df_jakarta_clean) :
          /\ j.cells["nama_restoran"] = "A"
          /\ Occurrences(blue_data, j, "nama_restoran") = 0

----------------------------------------------------------------------------
(* Vocabulary of the page properties *)

Rendered == rerun.ended = "rendered"

\* the grand total of the three session datasets
GrandTotal ==
    Len(session_state.green_data.rows) + Len(session_state.orange_data.rows)
        + Len(session_state.blue_data.rows)

CategoryCount(k) ==
    CASE k = 1 -> Len(session_state.green_data.rows)
      [] k = 2 -> Len(session_state.orange_data.rows)
      [] k = 3 -> Len(session_state.blue_data.rows)

\* the sum of the three per-category fields, in hundredths of a percent
PercentSum ==
    rerun.Persentase[1].hundredths + rerun.Persentase[2].hundredths
        + rerun.Persentase[3].hundredths

AllDefaultFilesExist == \A t \in FileTypes : repository[t].exists

SameDatasets(ss, other) ==
    /\ ss.green_data = other.green_data
    /\ ss.orange_data = other.orange_data
    /\ ss.blue_data = other.blue_data

\* an input of the visible mode is None or the empty string
MissingInput(source, ups, pths) ==
    \/ source = UPLOAD /\ \E t \in FileTypes : ~ups[t].given
    \/ source = CUSTOM /\ \E t \in FileTypes : pths[t] = ""

----------------------------------------------------------------------------
(* C11 *)

\* the three per-category fields of a rendered summary: with a grand total
\* above 0 each is the category's share rounded to two decimals and the
\* three sum to 100% within rounding (99.99 to 100.01); with a grand total
\* of 0 each is '0%'
PerCategoryFields ==
    Rendered =>
        /\ rerun.totals.total_all = GrandTotal
        /\ GrandTotal > 0 =>
              /\ \A k \in 1..3 :
                    LET h == rerun.Persentase[k].hundredths
                        d == h * GrandTotal - 100 * 100 * CategoryCount(k)
                    IN  /\ rerun.Persentase[k].decimals = 2
                        /\ 2 * d <= GrandTotal /\ -2 * d <= GrandTotal
              /\ PercentSum \in (100 * 100 - 1)..(100 * 100 + 1)
        /\ GrandTotal = 0 =>
              \A k \in 1..3 :
                  rerun.Persentase[k] = [decimals |-> 0, hundredths |-> 0]

\* C11: in a rendered summary, the per-category percentages sum to 100%
\* within rounding when the grand total of the three outputs is above 0, and
\* when the grand total is 0 every field of the Persentase column, the one
\* of the Total row included, is '0%'.
C11_Percentages ==
    /\ PerCategoryFields
    /\ (Rendered /\ GrandTotal = 0) =>
          \A k \in 1..Len(rerun.Persentase) :
              rerun.Persentase[k] = [decimals |-> 0, hundredths |-> 0]

\* 23 and 137 records of 160: 14.375% shown as 14.37%, 85.625% as 85.62%,
\* 99.99% in all
C11_Witness ==
    /\ Rendered
    /\ GrandTotal = 160
    /\ rerun.Persentase[1] = [decimals |-> 2, hundredths |-> 1437]
    /\ rerun.Persentase[2] = [decimals |-> 2, hundredths |-> 8562]
    /\ PercentSum = 100 * 100 - 1

\* a summary rendered over three empty datasets
C11_ZeroTotalRendered == Rendered /\ GrandTotal = 0

----------------------------------------------------------------------------
(* C14 *)

\* C14: a rerun invokes the automatic load only when the source is 'Auto
\* Load dari Repository', the three default files exist and auto_loaded was
\* false; once auto_loaded is true it stays true, no later rerun invokes the
\* automatic load, and a rerun without a press of the load button leaves the
\* session datasets as they were.
C14_AutoLoadOnce ==
    [][ /\ rerun'.auto_invoked =>
              /\ data_source' = AUTO
              /\ AllDefaultFilesExist
              /\ ~session_state.auto_loaded
        /\ session_state.auto_loaded =>
              /\ session_state'.auto_loaded
              /\ ~rerun'.auto_invoked
              /\ ~rerun'.button => SameDatasets(session_state', session_state)
      ]_vars

\* a rerun in Auto mode, after the automatic load, that did not invoke it
C14_Witness ==
    /\ session_state.auto_loaded
    /\ data_source = AUTO
    /\ AllDefaultFilesExist
    /\ rerun.ran /\ ~rerun.auto_invoked

\* the first run, in Auto mode with the three default files, stopped
\* before line 246: nothing was stored, and the next run, in File Upload
\* mode, finds no data
C14_StoppedBeforeStore ==
    /\ AllDefaultFilesExist
    /\ data_source = UPLOAD
    /\ ~session_state.data_loaded /\ ~session_state.auto_loaded
    /\ rerun.ended = "not_loaded"

----------------------------------------------------------------------------
(* C15 *)

\* C15: auto_loaded implies data_loaded in every state; data_loaded, once
\* true, stays true; and a rerun that renders shows the counts of the
\* datasets returned by the last load call whose results were stored, which
\* are the datasets in the session state.
C15_LoadedStays ==
    [][ /\ session_state'.auto_loaded => session_state'.data_loaded
        /\ session_state.data_loaded => session_state'.data_loaded
        /\ rerun'.ended = "rendered" =>
              /\ last_load'.returned
              /\ session_state'.green_data = last_load'.green
              /\ session_state'.orange_data = last_load'.orange
              /\ session_state'.blue_data = last_load'.blue
              /\ rerun'.totals.total_green = Len(last_load'.green.rows)
              /\ rerun'.totals.total_orange = Len(last_load'.orange.rows)
              /\ rerun'.totals.total_blue = Len(last_load'.blue.rows)
      ]_vars

----------------------------------------------------------------------------
(* C16 *)

\* C16: in File Upload or Custom Path mode, a press of the load button
\* while one of the three inputs is missing or empty ends the rerun with
\* the error: no load call is made and the session state is unchanged.
C16_MissingInput ==
    [][ (rerun'.button /\ MissingInput(data_source', uploads', paths')) =>
            /\ rerun'.ended = "missing_input"
            /\ ~rerun'.load_called
            /\ session_state' = session_state
      ]_vars

\* C16, as it holds: such a rerun makes no load call and leaves the session
\* state unchanged, and it ends with the error unless it is stopped before
\* the error is shown.
C16_MissingInputUnlessStopped ==
    [][ (rerun'.button /\ MissingInput(data_source', uploads', paths')) =>
            /\ rerun'.ended \in {"missing_input", "stopped"}
            /\ ~rerun'.load_called
            /\ session_state' = session_state
      ]_vars

\* the button pressed with an input missing while data was loaded
C16_Witness ==
    /\ rerun.button
    /\ MissingInput(data_source, uploads, paths)
    /\ rerun.ended = "missing_input"
    /\ session_state.data_loaded

----------------------------------------------------------------------------
(* C17 *)

LayerData(l) ==
    CASE l = "match" -> session_state.green_data
      [] l = "esb" -> session_state.orange_data
      [] l = "jakarta" -> session_state.blue_data

\* the layers both enabled and non-empty
Visible == {l \in LayerNames : show_layers[l] /\ LayerData(l).rows # <<>>}

Point(cells, l) ==
    [layer |-> l, nama_restoran |-> cells["nama_restoran"],
     lat |-> cells["lat"], lon |-> cells["lon"],
     kategori |-> cells["kategori"], warna |-> cells["warna"]]

PointsOf(l) ==
    IF l \in Visible
    THEN [i \in 1..Len(LayerData(l).rows) |->
              Point(LayerData(l).rows[i].cells, l)]
    ELSE <<>>

Plotted ==
    [i \in 1..Len(rerun.deck_map.data.rows) |->
        Point(rerun.deck_map.data.rows[i].cells,
              rerun.deck_map.data.rows[i].cells["layer"])]

\* C17: in a rendered rerun, no map is returned when no layer is both
\* enabled and non-empty; when a map is returned its points are the records
\* of the enabled non-empty categories in the order Match, ESB-only,
\* Jakarta-only, and every point belongs to an enabled layer.
C17_DeckMap ==
    Rendered =>
        /\ Visible = {} => ~rerun.deck_map.returned
        /\ rerun.deck_map.returned =>
              /\ Plotted = PointsOf("match") \o PointsOf("esb")
                               \o PointsOf("jakarta")
              /\ \A i \in 1..Len(Plotted) : show_layers[Plotted[i].layer]

\* a map of two categories while the third, disabled, has records
C17_Witness ==
    /\ Rendered
    /\ rerun.deck_map.returned
    /\ Cardinality(Visible) = 2
    /\ \E l \in LayerNames : ~show_layers[l] /\ LayerData(l).rows # <<>>

\* no map: every non-empty category is disabled
C17_NoMapWitness ==
    /\ Rendered
    /\ ~rerun.deck_map.returned
    /\ GrandTotal > 0

====
